---- MODULE Spec2Model ----
(***************************************************************************)
(* Resume screening core: the persistent vector store                      *)
(* (app/embeddings/embedding_service.py), the candidate scorer             *)
(* (app/ranking/matcher.py), the generation client                         *)
(* (app/utils/llm_client.py) and the text utilities (app/utils).           *)
(*                                                                         *)
(* Numbers the code holds as floats are exact rationals here, written as   *)
(* reduced fractions <<num, den>> with den > 0.  A text is a string, read  *)
(* character by character.  A Python dict is a function whose domain is    *)
(* its set of string keys; None is <<>> and a present value x is <<x>>.    *)
(***************************************************************************)
EXTENDS Integers, Sequences, FiniteSets, TLC

VARIABLES
    vectors,      \* self._vectors: the rows of the array, in order
    metadatas,    \* self._metadatas
    lookup,       \* self._resume_lookup: id -> resume record
    diskVectors,  \* the file vectors.npz
    diskMeta,     \* the file meta.json
    last          \* the last call: its name, arguments, and what it returned or raised

vars == <<vectors, metadatas, lookup, diskVectors, diskMeta, last>>

\* Largest number of resumes in one build_store batch.
MaxResumes == 2

\* The retrieval distances tried are the multiples of 1/DistanceSteps in [0, 2].
DistanceSteps == 5

\* Largest number of line choices joined into one answer of the generation
\* service.
MaxLines == 3

\* Largest length of the texts given to clean_text.
MaxChars == 4

None == <<>>
Some(x) == <<x>>

Min(a, b) == IF a <= b THEN a ELSE b
Abs(n) == IF n < 0 THEN -n ELSE n

(***************************************************************************)
(* Exact rationals.                                                        *)
(***************************************************************************)
RECURSIVE GCD(_, _)
GCD(a, b) == IF b = 0 THEN a ELSE GCD(b, a % b)

Frac(n, d) ==
    LET g == GCD(Abs(n), Abs(d))
        s == IF d < 0 THEN -1 ELSE 1
    IN  <<(s * n) \div g, (s * d) \div g>>

FLess(a, b) == a[1] * b[2] < b[1] * a[2]
FLeq(a, b) == a[1] * b[2] <= b[1] * a[2]
FAdd(a, b) == Frac(a[1] * b[2] + b[1] * a[2], a[2] * b[2])
FSub(a, b) == Frac(a[1] * b[2] - b[1] * a[2], a[2] * b[2])
FMul(a, b) == Frac(a[1] * b[1], a[2] * b[2])
FDiv(a, b) == Frac(a[1] * b[2], a[2] * b[1])
FMin(a, b) == IF FLeq(a, b) THEN a ELSE b
FNeg(a) == <<-a[1], a[2]>>
Zero == Frac(0, 1)
One == Frac(1, 1)

(***************************************************************************)
(* Python dicts and str().                                                 *)
(***************************************************************************)
EmptyDict == <<>>

\* {**a, **b}: the keys of both, b's value where both have the key.
DictMerge(a, b) ==
    [key \in (DOMAIN a) \cup (DOMAIN b) |-> IF key \in DOMAIN b THEN b[key] ELSE a[key]]

\* d.get(key): None when the key is absent.
DictGet(d, key) == IF key \in DOMAIN d THEN Some(d[key]) ELSE None

\* d.get(key, default)
DictGetOr(d, key, default) == IF key \in DOMAIN d THEN d[key] ELSE default

DictPut(d, key, value) ==
    [x \in (DOMAIN d) \cup {key} |-> IF x = key THEN value ELSE d[x]]

Digits == <<"0", "1", "2", "3", "4", "5", "6", "7", "8", "9">>

\* str(n) of a natural number.
RECURSIVE Str(_)
Str(n) == IF n < 10 THEN Digits[n + 1] ELSE Str(n \div 10) \o Digits[(n % 10) + 1]

(***************************************************************************)
(* app/utils/text_utils.py                                                 *)
(***************************************************************************)
Chars(text) == [i \in 1..Len(text) |-> SubSeq(text, i, i)]

UpperCase == Chars("ABCDEFGHIJKLMNOPQRSTUVWXYZ")
LowerCase == Chars("abcdefghijklmnopqrstuvwxyz")

\* str.lower() of one character
LowerChar(c) ==
    IF \E i \in 1..Len(UpperCase) : UpperCase[i] = c
    THEN LowerCase[CHOOSE i \in 1..Len(UpperCase) : UpperCase[i] = c]
    ELSE c

\* text.lower(), as characters
Lowered(cs) == [i \in 1..Len(cs) |-> LowerChar(cs[i])]

\* needle in haystack (substring test), both as characters
Contains(hay, needle) ==
    \E i \in 1..(Len(hay) - Len(needle) + 1) : SubSeq(hay, i, i + Len(needle) - 1) = needle

COMMON_SKILLS ==
    {"python", "java", "c++", "sql", "aws", "azure", "gcp", "docker", "kubernetes",
     "pandas", "numpy", "tensorflow", "pytorch", "nlp", "machine learning",
     "data analysis", "react", "javascript", "django", "flask", "spark", "hadoop",
     "tableau"}

extract_skills(text) ==
    {skill \in COMMON_SKILLS : Contains(Lowered(Chars(text)), Chars(skill))}

IsDigit(c) == \E i \in 1..Len(Digits) : Digits[i] = c
DigitValue(c) == (CHOOSE i \in 1..Len(Digits) : Digits[i] = c) - 1

\* \s
IsSpace(c) == c \in {" ", "\t", "\n", "\r"}

RECURSIVE SkipSpaces(_, _)
SkipSpaces(cs, i) == IF i <= Len(cs) /\ IsSpace(cs[i]) THEN SkipSpaces(cs, i + 1) ELSE i

\* Whether the characters from i on start with word, ignoring case.
StartsWith(cs, i, word) ==
    /\ i + Len(word) - 1 <= Len(cs)
    /\ Lowered(SubSeq(cs, i, i + Len(word) - 1)) = Chars(word)

\* A match of (\d{1,2})(?:\+)?\s*(?:years|yrs), ignoring case, that starts at
\* i: None, or <<the number, the position after the match>>.  The pattern
\* matches in at most one way from a given start: one digit where two are
\* there leaves a digit in front of the unit, which never matches.
MatchAt(cs, i) ==
    IF ~(i <= Len(cs) /\ IsDigit(cs[i])) THEN None
    ELSE LET two == i + 1 <= Len(cs) /\ IsDigit(cs[i + 1])
             number == IF two THEN 10 * DigitValue(cs[i]) + DigitValue(cs[i + 1])
                       ELSE DigitValue(cs[i])
             afterDigits == IF two THEN i + 2 ELSE i + 1
             afterPlus == IF afterDigits <= Len(cs) /\ cs[afterDigits] = "+"
                          THEN afterDigits + 1 ELSE afterDigits
             unit == SkipSpaces(cs, afterPlus)
         IN  IF StartsWith(cs, unit, "years") THEN Some(<<number, unit + 5>>)
             ELSE IF StartsWith(cs, unit, "yrs") THEN Some(<<number, unit + 3>>)
             ELSE None

\* pattern.finditer(text): the numbers of the matches found from i on, left to
\* right, none overlapping another.
RECURSIVE FindIter(_, _)
FindIter(cs, i) ==
    IF i > Len(cs) THEN <<>>
    ELSE IF MatchAt(cs, i) = None THEN FindIter(cs, i + 1)
    ELSE <<MatchAt(cs, i)[1][1]>> \o FindIter(cs, MatchAt(cs, i)[1][2])

RECURSIVE SumSeq(_)
SumSeq(s) == IF s = <<>> THEN 0 ELSE Head(s) + SumSeq(Tail(s))

\* The mean of the matched numbers, or None.
estimate_years_of_experience(text) ==
    LET matches == FindIter(Chars(text), 1)
    IN  IF matches # <<>> THEN Some(Frac(SumSeq(matches), Len(matches))) ELSE None

\* The string of a sequence of characters: "".join(cs), the two halves joined.
RECURSIVE Text(_)
Text(cs) ==
    IF cs = <<>> THEN ""
    ELSE IF Len(cs) = 1 THEN cs[1]
    ELSE Text(SubSeq(cs, 1, Len(cs) \div 2)) \o Text(SubSeq(cs, Len(cs) \div 2 + 1, Len(cs)))

\* sep.join(strings)
RECURSIVE Join(_, _)
Join(sep, strings) ==
    IF strings = <<>> THEN ""
    ELSE IF Len(strings) = 1 THEN strings[1]
    ELSE strings[1] \o sep \o Join(sep, Tail(strings))

\* str.strip(): the whitespace taken off both ends.
RECURSIVE StripLeft(_)
StripLeft(cs) == IF cs # <<>> /\ IsSpace(Head(cs)) THEN StripLeft(Tail(cs)) ELSE cs

RECURSIVE StripRight(_)
StripRight(cs) ==
    IF cs # <<>> /\ IsSpace(cs[Len(cs)]) THEN StripRight(SubSeq(cs, 1, Len(cs) - 1)) ELSE cs

Strip(cs) == StripRight(StripLeft(cs))

\* Each whitespace character replaced by a space, one by one.
RECURSIVE SubEachSpace(_, _)
SubEachSpace(cs, i) ==
    IF i > Len(cs) THEN <<>>
    ELSE IF IsSpace(cs[i]) THEN <<" ">> \o SubEachSpace(cs, i + 1)
    ELSE <<cs[i]>> \o SubEachSpace(cs, i + 1)

\* re.sub(r"\s+", " ", text) from position i on: each maximal run of
\* whitespace replaced by one space.
RECURSIVE SubSpaces(_, _)
SubSpaces(cs, i) ==
    IF i > Len(cs) THEN <<>>
    ELSE IF IsSpace(cs[i]) THEN <<" ">> \o SubSpaces(cs, SkipSpaces(cs, i))
    ELSE <<cs[i]>> \o SubSpaces(cs, i + 1)

clean_text(text) == Text(Strip(SubSpaces(Chars(text), 1)))

IsSentenceEnd(c) == c \in {".", "!", "?"}

\* The first position from i on where (?<=[.!?])\s+ matches: a whitespace
\* character that follows ".", "!" or "?"; Len(cs) + 1 when there is none.
SplitPoint(cs, i) ==
    LET matches == {j \in i..Len(cs) : IsSpace(cs[j]) /\ j > 1 /\ IsSentenceEnd(cs[j - 1])}
    IN  IF matches = {} THEN Len(cs) + 1
        ELSE CHOOSE j \in matches : \A k \in matches : j <= k

\* re.split(r"(?<=[.!?])\s+", text) from position i on: the text is cut at
\* every run of whitespace that follows ".", "!" or "?".
RECURSIVE SplitAfterPunctuation(_, _)
SplitAfterPunctuation(cs, i) ==
    LET j == SplitPoint(cs, i)
    IN  IF j > Len(cs) THEN <<SubSeq(cs, i, Len(cs))>>
        ELSE <<SubSeq(cs, i, j - 1)>> \o SplitAfterPunctuation(cs, SkipSpaces(cs, j))

\* [s.strip() for s in sentences if s.strip()]
split_sentences(text) ==
    LET sentences == SplitAfterPunctuation(Chars(text), 1)
        kept == SelectSeq(sentences, LAMBDA s : Strip(s) # <<>>)
    IN  [i \in 1..Len(kept) |-> Text(Strip(kept[i]))]

(***************************************************************************)
(* Texts, the embedding model and the resume records the callers supply.   *)
(***************************************************************************)
TextA == "python, 5 years"
TextB == "Java, 5 yrs"
TextC == "sql and aws. 12+ YEARS"
TextZ == "..."

\* The job descriptions of the runs.
JdTexts == {"Python and Java", "python, 4 years"}

\* The texts the scoring functions are applied to on their own, as job
\* description and as resume.
ScoreTexts ==
    {"python, 5 years", "java, 1 year", "python, 4 years", "0 years",
     "Python and AWS: 5 years, 3 yrs", "docker 30 yrs", "sql, 2 years", "no skills listed"}

\* Every text of the runs, and what the two extractors give for each (each
\* text is read once, not once per use).
Texts == {TextA, TextB, TextC} \cup JdTexts \cup ScoreTexts
SkillsOf == [text \in Texts |-> extract_skills(text)]
YearsOf == [text \in Texts |-> estimate_years_of_experience(text)]

\* EmbeddingService.embed_documents: the external sentence-embedding model, a
\* fixed function of the text.  Two dimensions stand for its 384; TextA and
\* TextB point the same way with different lengths, so their cosines tie, and
\* TextZ is a text that it maps to the all-zero vector.
EmbedText(text) ==
    CASE text = TextA -> <<1, 0>>
      [] text = TextB -> <<2, 0>>
      [] text = TextC -> <<3, 4>>
      [] text = TextZ -> <<0, 0>>
      [] OTHER -> <<0, 1>>

embed_documents(texts) == [i \in 1..Len(texts) |-> EmbedText(texts[i])]

\* A resume as main.py builds it, one with no "metadata" key, and one whose
\* metadata carries a passthrough field named candidate_id.
ResumeA == [text |-> TextA, metadata |-> [candidate_name |-> "A", file_name |-> "a.pdf"]]
ResumeB == [text |-> TextB]
ResumeC == [text |-> TextC, metadata |-> [candidate_name |-> "C", candidate_id |-> "2"]]

Resumes == {ResumeA, ResumeB, ResumeC}

\* A resume whose embedding is the all-zero vector.
ResumeZ == [text |-> TextZ, metadata |-> [candidate_name |-> "Z", file_name |-> "z.pdf"]]

RECURSIVE SeqsUpTo(_, _)
SeqsUpTo(S, n) ==
    IF n = 0 THEN {<<>>}
    ELSE LET shorter == SeqsUpTo(S, n - 1)
         IN  shorter \cup {Append(s, x) : s \in {t \in shorter : Len(t) = n - 1}, x \in S}

ResumeBatches == SeqsUpTo(Resumes, MaxResumes)

\* The batches of the searches for a stored vector: rows that repeat, rows in
\* different directions, a row of zeros.
SelfBatches == SeqsUpTo({ResumeA, ResumeC, ResumeZ}, MaxResumes)

\* The batches of the screening runs with restarts: resumes as main.py builds
\* them and with no metadata, none with an id of its own.
WarmBatches == SeqsUpTo({ResumeA, ResumeB}, MaxResumes)

\* The batches of the runs that follow the store across failures and restarts.
LifeBatches == SeqsUpTo({ResumeA, ResumeC}, MaxResumes)

\* The query vectors of the searches.
QueryVectors == {<<1, 0>>, <<0, 1>>, <<-1, 0>>, <<0, 0>>}

\* k: omitted (None), or an integer.
KInputs == {None} \cup {Some(n) : n \in 0..MaxResumes}

IdInputs == {Str(n) : n \in 0..(MaxResumes + 1)}

(***************************************************************************)
(* Cosine similarity (sklearn.metrics.pairwise.cosine_similarity): both    *)
(* sides are scaled to unit length, a zero row is left zero, then the dot  *)
(* product.                                                                *)
(***************************************************************************)
Dot(u, v) == u[1] * v[1] + u[2] * v[2]

\* The vectors of the model have integer lengths.
Norm(v) == CHOOSE r \in 0..Dot(v, v) : r * r = Dot(v, v)

cosine_similarity(q, v) ==
    IF Norm(q) = 0 \/ Norm(v) = 0 THEN Zero ELSE Frac(Dot(q, v), Norm(q) * Norm(v))

IndexOrders(n) == {p \in [1..n -> 1..n] : \A i, j \in 1..n : p[i] = p[j] => i = j}

\* np.argsort(keys) with the default kind ("quicksort", which numpy documents
\* as not stable): every index order that puts the keys in ascending order.
argsort(keys) ==
    {p \in IndexOrders(Len(keys)) :
        \A i, j \in 1..Len(keys) : i < j => FLeq(keys[p[i]], keys[p[j]])}

\* order[:k] for k >= 0
Take(s, k) == SubSeq(s, 1, Min(k, Len(s)))

\* Python's truth value of k: int | None
Truthy(k) == k # None /\ k[1] # 0

(***************************************************************************)
(* The persisted artifact: np.savez_compressed / np.load, json.dump /     *)
(* json.load.  A file is absent, whole, or cut short by a failed write.    *)
(***************************************************************************)
Absent == [state |-> "absent"]
Corrupt == [state |-> "corrupt"]

\* np.savez_compressed(path, vectors=array): an archive with one named array.
savez_compressed(array) == [state |-> "ok", content |-> {<<"vectors", array>>}]

\* np.load(path)["vectors"]
npz_vectors(file) == (CHOOSE e \in file.content : e[1] = "vectors")[2]

\* json.dump(list of dicts): an array of objects, each its key/value pairs.
json_dump(dicts) ==
    [state |-> "ok",
     content |-> [i \in 1..Len(dicts) |-> {<<key, dicts[i][key]>> : key \in DOMAIN dicts[i]}]]

\* json.load(file)
json_load(file) ==
    [i \in 1..Len(file.content) |->
        [key \in {e[1] : e \in file.content[i]} |->
            (CHOOSE e \in file.content[i] : e[1] = key)[2]]]

\* VectorStoreManager._load: what the constructor leaves in memory.
Loaded(dv, dm) ==
    IF dv.state # "absent" /\ dm.state # "absent"
    THEN IF dv.state = "ok" /\ dm.state = "ok"
         THEN [vectors |-> npz_vectors(dv), metadatas |-> json_load(dm)]
         ELSE [vectors |-> <<>>, metadatas |-> <<>>]
    ELSE [vectors |-> <<>>, metadatas |-> <<>>]

(***************************************************************************)
(* VectorStoreManager.                                                     *)
(***************************************************************************)
\* {"candidate_id": resume_id, **resume.get("metadata", {})}
MetadataOf(resume_id, resume) ==
    DictMerge([candidate_id |-> resume_id], DictGetOr(resume, "metadata", EmptyDict))

\* The loop of build_store from position idx on: texts, metadatas and the
\* lookup as it fills them.
RECURSIVE BuildLoop(_, _, _)
BuildLoop(resumes, idx, acc) ==
    IF idx > Len(resumes) THEN acc
    ELSE LET resume == resumes[idx]
             resume_id == Str(idx)
         IN  BuildLoop(resumes, idx + 1,
                 [texts |-> Append(acc.texts, resume.text),
                  metadatas |-> Append(acc.metadatas, MetadataOf(resume_id, resume)),
                  lookup |-> DictPut(acc.lookup, resume_id, resume)])

Built(resumes) ==
    BuildLoop(resumes, 1, [texts |-> <<>>, metadatas |-> <<>>, lookup |-> EmptyDict])

\* How a build_store call ends: it returns, or one of the calls it makes raises
\* (the embedding model; opening or writing either file of the artifact).
BuildOutcomes ==
    {"ok", "embed_raises", "savez_open_raises", "savez_write_raises",
     "meta_open_raises", "json_dump_raises"}

\* Whether build_store got as far as assigning self._vectors and self._metadatas.
StoresBatch(outcome) == outcome # "embed_raises"

\* vectors.npz after _persist, by how far it got.
PersistedVectors(outcome, old, array) ==
    CASE outcome = "savez_open_raises" -> old
      [] outcome = "savez_write_raises" -> Corrupt
      [] OTHER -> savez_compressed(array)

\* meta.json after _persist, by how far it got.
PersistedMeta(outcome, old, dicts) ==
    CASE outcome \in {"savez_open_raises", "savez_write_raises", "meta_open_raises"} -> old
      [] outcome = "json_dump_raises" -> Corrupt
      [] OTHER -> json_dump(dicts)

\* build_store(resumes, embedding_service)
build_store(resumes, outcome) ==
    LET b == Built(resumes)
    IN  /\ lookup' = b.lookup
        /\ IF b.texts = <<>>
           THEN /\ vectors' = <<>>
                /\ metadatas' = <<>>
                /\ UNCHANGED <<diskVectors, diskMeta>>
                /\ last' = [op |-> "build_store", args |-> resumes, raised |-> ""]
           ELSE IF ~StoresBatch(outcome)
           THEN /\ UNCHANGED <<vectors, metadatas, diskVectors, diskMeta>>
                /\ last' = [op |-> "build_store", args |-> resumes, raised |-> outcome]
           ELSE /\ vectors' = embed_documents(b.texts)
                /\ metadatas' = b.metadatas
                /\ diskVectors' = PersistedVectors(outcome, diskVectors, vectors')
                /\ diskMeta' = PersistedMeta(outcome, diskMeta, metadatas')
                /\ last' = [op |-> "build_store", args |-> resumes,
                            raised |-> IF outcome = "ok" THEN "" ELSE outcome]

\* A build_store call that returns.
BuildStore == \E resumes \in ResumeBatches : build_store(resumes, "ok")

\* A build_store call, of the store's life across failures and restarts, that
\* returns or raises.
BuildStoreOrFail ==
    \E resumes \in LifeBatches, outcome \in BuildOutcomes : build_store(resumes, outcome)

\* The process ends and a new one constructs VectorStoreManager on the same
\* directory: __init__ and _load.
Restart ==
    /\ lookup' = EmptyDict
    /\ vectors' = Loaded(diskVectors, diskMeta).vectors
    /\ metadatas' = Loaded(diskVectors, diskMeta).metadatas
    /\ UNCHANGED <<diskVectors, diskMeta>>
    /\ last' = [op |-> "init", args |-> <<>>, raised |-> ""]

\* The guard left out: the search goes on with no rows.
NotInitializedUnchecked(vecs) == FALSE

\* self._vectors.size == 0
NotInitialized(vecs) == Len(vecs) = 0

\* sims = cosine_similarity(query_vector.reshape(1, -1), self._vectors)[0]
Sims(q, vecs) == [i \in 1..Len(vecs) |-> cosine_similarity(q, vecs[i])]

\* order = np.argsort(-sims); if k: order = order[:k]
SearchOrders(q, k, vecs) ==
    LET sims == Sims(q, vecs)
    IN  {IF Truthy(k) THEN Take(order, k[1]) ELSE order :
            order \in argsort([i \in 1..Len(vecs) |-> FNeg(sims[i])])}

\* distance = 1 - float(sims[idx])
Distance(sim) == FSub(One, sim)

\* The list the loop over order builds.
SearchResults(q, order, vecs, metas) ==
    LET sims == Sims(q, vecs)
    IN  [i \in 1..Len(order) |-> <<metas[order[i]], Distance(sims[order[i]])>>]

\* What a call of similarity_search_with_scores can return or raise.
SearchOutcomes(q, k, vecs, metas) ==
    IF NotInitialized(vecs)
    THEN {[raised |-> "Vector store is not initialized.", value |-> <<>>]}
    ELSE {IF \E i \in 1..Len(order) : order[i] > Len(metas)
          THEN [raised |-> "IndexError", value |-> <<>>]
          ELSE [raised |-> "", value |-> SearchResults(q, order, vecs, metas)] :
            order \in SearchOrders(q, k, vecs)}

\* similarity_search_with_scores(query_vector, k)
similarity_search_with_scores(q, k) ==
    /\ \E out \in SearchOutcomes(q, k, vectors, metadatas) :
          last' = [op |-> "search", args |-> <<q, k>>, raised |-> out.raised, value |-> out.value]
    /\ UNCHANGED <<vectors, metadatas, lookup, diskVectors, diskMeta>>

Search == \E q \in QueryVectors, k \in KInputs : similarity_search_with_scores(q, k)

\* A build_store call, of the searches for a stored vector, that returns.
BuildSelf == \E resumes \in SelfBatches : build_store(resumes, "ok")

\* A search whose query vector is one of the stored rows.
SearchStored ==
    \E i \in 1..Len(vectors), k \in KInputs : similarity_search_with_scores(vectors[i], k)

\* get_resume_by_id(resume_id)
get_resume_by_id(resume_id) ==
    /\ last' = [op |-> "get_resume_by_id", args |-> resume_id, raised |-> "",
                value |-> DictGet(lookup, resume_id)]
    /\ UNCHANGED <<vectors, metadatas, lookup, diskVectors, diskMeta>>

GetResume == \E resume_id \in IdInputs : get_resume_by_id(resume_id)

(***************************************************************************)
(* LLMClient (app/utils/llm_client.py).                                    *)
(*                                                                         *)
(* A decoded JSON value is a record tagged with its Python type; an object *)
(* is its key/value pairs in the order of the document.  The outcome of an *)
(* HTTP request is an exception of the requests library or a response with *)
(* a status code and a body, the body a JSON value or not JSON at all.     *)
(***************************************************************************)
JNull == [type |-> "NoneType"]
JBool(b) == [type |-> "bool", bool |-> b]
JInt(n) == [type |-> "int", int |-> n]
JStr(text) == [type |-> "str", str |-> text]
JList(items) == [type |-> "list", items |-> items]
JDict(pairs) == [type |-> "dict", pairs |-> pairs]
NotJson == [type |-> "not json"]

\* Python's truth value of a decoded value
JTruthy(v) ==
    CASE v.type = "NoneType" -> FALSE
      [] v.type = "bool" -> v.bool
      [] v.type = "int" -> v.int # 0
      [] v.type = "str" -> v.str # ""
      [] v.type = "list" -> v.items # <<>>
      [] v.type = "dict" -> v.pairs # <<>>

\* d.get(key) on a decoded object: None when the key is absent.
JGet(pairs, key) ==
    IF \E i \in 1..Len(pairs) : pairs[i][1] = key
    THEN pairs[CHOOSE i \in 1..Len(pairs) :
                   /\ pairs[i][1] = key
                   /\ \A j \in (i + 1)..Len(pairs) : pairs[j][1] # key][2]
    ELSE JNull

\* a or b
Or(a, b) == IF JTruthy(a) THEN a ELSE b

\* x.get("response") or x.get("text") or x.get("output")
FirstField(pairs) ==
    Or(JGet(pairs, "response"), Or(JGet(pairs, "text"), JGet(pairs, "output")))

\* str(value) of a decoded value (the texts of the model hold no quote and no
\* backslash, so a string is shown between single quotes as it is).
RECURSIVE PyStr(_)
PyStr(v) ==
    CASE v.type = "NoneType" -> "None"
      [] v.type = "bool" -> IF v.bool THEN "True" ELSE "False"
      [] v.type = "int" -> Str(v.int)
      [] v.type = "str" -> "'" \o v.str \o "'"
      [] v.type = "list" ->
            "[" \o Join(", ", [i \in 1..Len(v.items) |-> PyStr(v.items[i])]) \o "]"
      [] v.type = "dict" ->
            "{" \o Join(", ", [i \in 1..Len(v.pairs) |->
                                  "'" \o v.pairs[i][1] \o "': " \o PyStr(v.pairs[i][2])])
                \o "}"

Raise(exception) == [raised |-> exception]
Return(value) == [raised |-> "", value |-> value]

RequestRaises(exception) == [kind |-> "raises", exception |-> exception]
Response(status_code, body) == [kind |-> "response", status_code |-> status_code, body |-> body]

\* response.raise_for_status() raises for the 4xx and 5xx codes.
IsErrorStatus(status_code) == 400 <= status_code /\ status_code < 600

\* _call_ollama(prompt), reply being what the POST gives: the text of the
\* answer, a field that is no text, or an exception.
_call_ollama(prompt, reply) ==
    IF reply.kind = "raises" THEN Raise(reply.exception)
    ELSE IF IsErrorStatus(reply.status_code) THEN Raise("HTTPError")
    ELSE IF reply.body = NotJson THEN Raise("JSONDecodeError")
    ELSE LET data == reply.body
         IN  IF data.type = "list"
             THEN IF \E i \in 1..Len(data.items) : data.items[i].type # "dict"
                  THEN Raise("AttributeError")
                  ELSE LET chunks == [i \in 1..Len(data.items) |->
                                         FirstField(data.items[i].pairs)]
                           kept == SelectSeq(chunks, JTruthy)
                       IN  IF \E i \in 1..Len(kept) : kept[i].type # "str"
                           THEN Raise("TypeError")
                           ELSE Return(JStr(Join("", [i \in 1..Len(kept) |-> kept[i].str])))
             ELSE IF data.type # "dict" THEN Raise("AttributeError")
             ELSE Return(Or(FirstField(data.pairs), JStr(PyStr(data))))

\* The position of the first "\n" or "\r" from i on, Len(cs) + 1 when there
\* is none.
LineEnd(cs, i) ==
    LET breaks == {j \in i..Len(cs) : cs[j] \in {"\n", "\r"}}
    IN  IF breaks = {} THEN Len(cs) + 1
        ELSE CHOOSE j \in breaks : \A k \in breaks : j <= k

\* content.splitlines() from position i on: "\n", "\r\n" and "\r" end a
\* line, and the text after the last break is a line unless it is empty.
RECURSIVE SplitLines(_, _)
SplitLines(cs, i) ==
    IF i > Len(cs) THEN <<>>
    ELSE LET j == LineEnd(cs, i)
             next == IF j < Len(cs) /\ cs[j] = "\r" /\ cs[j + 1] = "\n"
                     THEN j + 2 ELSE j + 1
         IN  <<SubSeq(cs, i, j - 1)>> \o SplitLines(cs, next)

\* The section a line starts, tested in the code's order, or None.
SectionOf(line) ==
    LET lower == Lowered(line)
    IN  IF Contains(lower, Chars("strength")) THEN Some("strengths")
        ELSE IF Contains(lower, Chars("weakness")) THEN Some("weaknesses")
        ELSE IF Contains(lower, Chars("reason")) THEN Some("reasoning")
        ELSE None

\* line.rsplit(":", 1)[-1]: the part after the last colon.
AfterLastColon(line) ==
    IF \E i \in 1..Len(line) : line[i] = ":"
    THEN SubSeq(line, (CHOOSE i \in 1..Len(line) :
                           line[i] = ":" /\ \A j \in (i + 1)..Len(line) : line[j] # ":") + 1,
                Len(line))
    ELSE line

\* line.split(":", 1)[-1]: the part after the first colon, the whole line
\* when it has none.
AfterFirstColon(line) ==
    IF \E i \in 1..Len(line) : line[i] = ":"
    THEN SubSeq(line, (CHOOSE i \in 1..Len(line) :
                           line[i] = ":" /\ \A j \in 1..(i - 1) : line[j] # ":") + 1,
                Len(line))
    ELSE line

\* The loop of _parse_llm_response from line i on.
RECURSIVE ParseLines(_, _, _, _)
ParseLines(lines, i, sections, current_key) ==
    IF i > Len(lines) THEN sections
    ELSE LET line == lines[i]
             key == SectionOf(line)
         IN  IF key # None
             THEN ParseLines(lines, i + 1,
                      [sections EXCEPT ![key[1]] = Text(Strip(AfterFirstColon(line)))], key)
             ELSE IF current_key # None
             THEN ParseLines(lines, i + 1,
                      [sections EXCEPT ![current_key[1]] = @ \o " " \o Text(Strip(line))],
                      current_key)
             ELSE ParseLines(lines, i + 1, sections, current_key)

\* _parse_llm_response(content) of a text
_parse_llm_response(content) ==
    LET sections == ParseLines(SplitLines(Chars(content), 1), 1,
                               [strengths |-> "", weaknesses |-> "", reasoning |-> ""], None)
    IN  [k \in DOMAIN sections |->
            LET v == Text(Strip(Chars(sections[k])))
            IN  IF v # "" THEN v ELSE "Not provided."]

\* The summary with no placeholder for a resume without sentences.
SummaryWithoutPlaceholder(sentences) == Join(" ", Take(sentences, 3))

\* " ".join(sentences[:3]) if sentences else "Summary unavailable."
Summary(sentences) ==
    IF sentences # <<>> THEN Join(" ", Take(sentences, 3)) ELSE "Summary unavailable."

\* The heuristic feedback of lines 55-61.
Heuristics(resume_text) ==
    [strengths |-> "Solid baseline profile with relevant experience.",
     weaknesses |-> "Needs deeper alignment verification via interview.",
     reasoning |-> Summary(split_sentences(resume_text))]

\* What `except Exception` catches: every exception the request, the decoding
\* and the parsing raise is a subclass of Exception.
IsException(exception) ==
    exception \in {"ConnectionError", "Timeout", "HTTPError", "JSONDecodeError",
                   "AttributeError", "TypeError"}

\* analyze_candidate(candidate_name, job_description, resume_text), reply
\* being what the generation service gives to the POST.  The prompt template
\* is not empty, and the three arguments reach the service in the prompt
\* only.  An answer that is no text has no splitlines: AttributeError.
analyze_candidate(candidate_name, job_description, resume_text, reply) ==
    LET prompt == <<candidate_name, job_description, resume_text>>
        call == _call_ollama(prompt, reply)
        raised == IF call.raised # "" THEN call.raised
                  ELSE IF call.value.type # "str" THEN "AttributeError"
                  ELSE ""
    IN  IF raised = "" THEN Return(_parse_llm_response(call.value.str))
        ELSE IF IsException(raised) THEN Return(Heuristics(resume_text))
        ELSE Raise(raised)

\* An answer in the format the prompt asks for (app/prompts/analysis.py).
ExampleAnswer == "Strengths: Good coder\nWeaknesses: slow\nReasoning: solid fit"

\* What the generation service gives during a screening run: no connection,
\* or an answer.
ServiceReplies ==
    {RequestRaises("ConnectionError"),
     Response(200, JDict(<<<<"response", JStr(ExampleAnswer)>>>>))}

\* _parse_model_list(data): from the list under "models" or "data" of an
\* object, or from a list itself, the "name" or "model" of each object and
\* each string.
_parse_model_list(data) ==
    LET entries == IF data.type = "dict"
                   THEN Or(JGet(data.pairs, "models"), Or(JGet(data.pairs, "data"), JList(<<>>)))
                   ELSE data
        NameOf(item) == Or(JGet(item.pairs, "name"), JGet(item.pairs, "model"))
        Named(item) == \/ item.type = "dict" /\ JTruthy(NameOf(item))
                       \/ item.type = "str"
    IN  IF entries.type = "list"
        THEN LET kept == SelectSeq(entries.items, Named)
             IN  [i \in 1..Len(kept) |->
                     IF kept[i].type = "dict" THEN NameOf(kept[i]) ELSE kept[i]]
        ELSE <<>>

\* endpoints (line 93)
Endpoints == <<"/api/models", "/api/tags", "/api/status">>

\* The loop of health_check from endpoint i on, replies[i] being what the GET
\* of endpoint i gives and requests the paths requested so far.  An exception
\* of the request or of response.json() goes on to the next endpoint, and so
\* does a status other than 200 and 404.
RECURSIVE ProbeFrom(_, _, _)
ProbeFrom(replies, i, requests) ==
    IF i > Len(Endpoints)
    THEN [requests |-> requests,
          value |-> [ok |-> FALSE, msg |-> "Unable to reach Ollama", models |-> None]]
    ELSE LET reply == replies[i]
             sent == Append(requests, Endpoints[i])
         IN  IF reply.kind = "raises" THEN ProbeFrom(replies, i + 1, sent)
             ELSE IF reply.status_code = 200
             THEN IF reply.body = NotJson THEN ProbeFrom(replies, i + 1, sent)
                  ELSE [requests |-> sent,
                        value |-> [ok |-> TRUE, msg |-> "Ollama reachable",
                                   models |-> Some(_parse_model_list(reply.body))]]
             ELSE IF reply.status_code = 404
             THEN [requests |-> sent,
                   value |-> [ok |-> TRUE, msg |-> "Ollama reachable (no model list)",
                              models |-> Some(<<>>)]]
             ELSE ProbeFrom(replies, i + 1, sent)

\* health_check(timeout): the server's reply to each endpoint is fixed for the
\* call.  The paths are requested under the base of the generation URL.
health_check(replies) ==
    /\ LET out == ProbeFrom(replies, 1, <<>>)
       IN  last' = [op |-> "health_check", args |-> replies, raised |-> "",
                    requests |-> out.requests, value |-> out.value]
    /\ UNCHANGED <<vectors, metadatas, lookup, diskVectors, diskMeta>>

\* What a server gives to a GET of one endpoint: no connection, no answer in
\* time, a model list in either known shape, a body with no list, a body that
\* is not JSON, "not found", a server error.
HealthReplies ==
    {RequestRaises("ConnectionError"),
     RequestRaises("Timeout"),
     Response(200, JDict(<<<<"models", JList(<<JDict(<<<<"name", JStr("gemma3:1b")>>>>),
                                               JDict(<<<<"model", JStr("llama3")>>>>),
                                               JDict(<<<<"size", JInt(1)>>>>)>>)>>>>)),
     Response(200, JList(<<JStr("mistral")>>)),
     Response(200, JDict(<<<<"status", JStr("ok")>>>>)),
     Response(200, NotJson),
     Response(404, NotJson),
     Response(500, NotJson)}

HealthCheck == \E replies \in [1..Len(Endpoints) -> HealthReplies] : health_check(replies)

(***************************************************************************)
(* CandidateScorer (app/ranking/matcher.py).                               *)
(***************************************************************************)
\* The largest integer <= a
Floor(a) == a[1] \div a[2]

\* round(x, 2) of Python, in hundredths: to the nearest hundredth, an exact
\* half to the even one.
Round2(x) ==
    LET scaled == FMul(x, Frac(100, 1))
        low == Floor(scaled)
        rest == FSub(scaled, Frac(low, 1))
        half == Frac(1, 2)
    IN  Frac(IF FLess(rest, half) THEN low
             ELSE IF FLess(half, rest) THEN low + 1
             ELSE IF low % 2 = 0 THEN low ELSE low + 1,
             100)

\* Python's truth value of a float | None
TruthyNumber(x) == x # None /\ x[1] # Zero

_normalize_similarity(distance) == FDiv(One, FAdd(One, distance))

_score_skills(jd_skills, resume_text) ==
    IF jd_skills = {} THEN Frac(1, 2)
    ELSE Frac(Cardinality(jd_skills \cap SkillsOf[resume_text]), Cardinality(jd_skills))

\* The reward for exceeding the requirement left uncapped.
ScoreExperienceUncapped(jd_experience, resume_text) ==
    LET resume_experience == YearsOf[resume_text]
    IN  IF TruthyNumber(jd_experience) /\ TruthyNumber(resume_experience)
        THEN FDiv(FDiv(resume_experience[1], jd_experience[1]), Frac(12, 10))
        ELSE IF TruthyNumber(resume_experience)
        THEN FMin(FDiv(resume_experience[1], Frac(10, 1)), One)
        ELSE Frac(4, 10)

_score_experience(jd_experience, resume_text) ==
    LET resume_experience == YearsOf[resume_text]
    IN  IF TruthyNumber(jd_experience) /\ TruthyNumber(resume_experience)
        THEN FDiv(FMin(FDiv(resume_experience[1], jd_experience[1]), Frac(12, 10)), Frac(12, 10))
        ELSE IF TruthyNumber(resume_experience)
        THEN FMin(FDiv(resume_experience[1], Frac(10, 1)), One)
        ELSE Frac(4, 10)

\* The blend with the similarity weighted 0.7 and each heuristic 0.15.
BlendScoresSimilarityHeavy(similarity, skills, experience) ==
    FAdd(FAdd(FMul(Frac(70, 100), similarity), FMul(Frac(15, 100), skills)),
         FMul(Frac(15, 100), experience))

_blend_scores(similarity, skills, experience) ==
    FAdd(FAdd(FMul(Frac(55, 100), similarity), FMul(Frac(25, 100), skills)),
         FMul(Frac(2, 10), experience))

\* x * 100 rounded to two decimals
Percent(x) == Round2(FMul(x, Frac(100, 1)))

\* The scores evaluate's loop computes for one hit (lines 58-63), and the
\* percentages it reports (lines 74-77).
Scores(jd_text, score, resume_text) ==
    LET similarity == _normalize_similarity(score)
        skill_alignment == _score_skills(SkillsOf[jd_text], resume_text)
        experience_score == _score_experience(YearsOf[jd_text], resume_text)
        match_score == _blend_scores(similarity, skill_alignment, experience_score)
    IN  [raw |-> [similarity |-> similarity,
                  skill_alignment |-> skill_alignment,
                  experience_score |-> experience_score,
                  match_score |-> match_score],
         similarity |-> Percent(similarity),
         skill_alignment |-> Percent(skill_alignment),
         experience_score |-> Percent(experience_score),
         match_score |-> Percent(match_score)]

\* clean_text of every text of the runs (each text is read once).
CleanOf == [text \in Texts |-> clean_text(text)]

\* The feedback analyze_candidate returns for each reply of the service and
\* each resume text of the runs, cleaned as evaluate passes it.  The
\* candidate's name and the job description reach the service in the prompt
\* only, and the reply is given whatever the prompt.
FeedbackOf ==
    [reply \in ServiceReplies |->
        [text \in Texts |-> analyze_candidate("Candidate", "", CleanOf[text], reply).value]]

\* The arguments of the analyze_candidate call for one hit whose resume was
\* found (lines 57, 64-68).
FeedbackCall(jd_text, metadata, resume_entry) ==
    <<DictGetOr(metadata, "candidate_name", "Candidate"), jd_text, CleanOf[resume_entry.text]>>

\* The CandidateScore of one hit whose resume was found, reply being what the
\* generation service gives to the feedback request.  analyze_candidate does
\* not raise: its value is the feedback.
ScoreHit(jd_text, metadata, score, resume_entry, reply) ==
    LET scores == Scores(jd_text, score, resume_entry.text)
    IN  [candidate_name |-> DictGetOr(metadata, "candidate_name", "Candidate"),
         file_name |-> DictGetOr(metadata, "file_name", "N/A"),
         similarity |-> scores.similarity,
         skill_alignment |-> scores.skill_alignment,
         experience_score |-> scores.experience_score,
         match_score |-> scores.match_score,
         llm_feedback |-> FeedbackOf[reply][resume_entry.text]]

\* evaluate's loop from hit i on: a hit whose candidate_id resolves to no
\* resume is skipped.
RECURSIVE ScoreHits(_, _, _, _, _)
ScoreHits(jd_text, search_results, table, reply, i) ==
    IF i > Len(search_results) THEN <<>>
    ELSE LET metadata == search_results[i][1]
             resume_entry == IF "candidate_id" \in DOMAIN metadata
                             THEN DictGet(table, metadata["candidate_id"]) ELSE None
             rest == ScoreHits(jd_text, search_results, table, reply, i + 1)
         IN  IF resume_entry = None THEN rest
             ELSE <<ScoreHit(jd_text, metadata, search_results[i][2], resume_entry[1], reply)>>
                  \o rest

\* The analyze_candidate calls evaluate's loop makes from hit i on: one for
\* each hit that is not skipped.
RECURSIVE FeedbackCalls(_, _, _, _)
FeedbackCalls(jd_text, search_results, table, i) ==
    IF i > Len(search_results) THEN <<>>
    ELSE LET metadata == search_results[i][1]
             resume_entry == IF "candidate_id" \in DOMAIN metadata
                             THEN DictGet(table, metadata["candidate_id"]) ELSE None
             rest == FeedbackCalls(jd_text, search_results, table, i + 1)
         IN  IF resume_entry = None THEN rest
             ELSE <<FeedbackCall(jd_text, metadata, resume_entry[1])>> \o rest

\* x placed before the elements of the sorted list that it is to precede even
\* when their match_score equals its own.
InsertBeforeEqual(sortedSoFar, x) ==
    LET n == Cardinality({i \in 1..Len(sortedSoFar) :
                              FLess(x.match_score, sortedSoFar[i].match_score)})
    IN  SubSeq(sortedSoFar, 1, n) \o <<x>> \o SubSeq(sortedSoFar, n + 1, Len(sortedSoFar))

\* x placed after the elements of the sorted list whose match_score is at
\* least its own.
InsertDescending(sortedSoFar, x) ==
    LET n == Cardinality({i \in 1..Len(sortedSoFar) :
                              FLeq(x.match_score, sortedSoFar[i].match_score)})
    IN  SubSeq(sortedSoFar, 1, n) \o <<x>> \o SubSeq(sortedSoFar, n + 1, Len(sortedSoFar))

\* sorted(evaluations, key=lambda c: c.match_score, reverse=True): Python's
\* sort is stable, with reverse=True too.
RECURSIVE SortedByMatch(_, _)
SortedByMatch(evaluations, sortedSoFar) ==
    IF evaluations = <<>> THEN sortedSoFar
    ELSE SortedByMatch(Tail(evaluations), InsertDescending(sortedSoFar, Head(evaluations)))

\* evaluate after the search (lines 46-82): the hits scored, then sorted.
Ranked(jd_text, search_results, table, reply) ==
    SortedByMatch(ScoreHits(jd_text, search_results, table, reply, 1), <<>>)

\* evaluate(jd_text, jd_vector, top_k), reply being what the generation
\* service gives during the call: the error of the search is not caught.
\* calls are the analyze_candidate calls made.
evaluate(jd_text, jd_vector, top_k, reply) ==
    /\ \E out \in SearchOutcomes(jd_vector, top_k, vectors, metadatas) :
          last' = [op |-> "evaluate", args |-> <<jd_text, jd_vector, top_k, reply>>,
                   raised |-> out.raised,
                   search_results |-> out.value,
                   calls |-> IF out.raised # "" THEN <<>>
                             ELSE FeedbackCalls(jd_text, out.value, lookup, 1),
                   value |-> IF out.raised # "" THEN <<>>
                             ELSE Ranked(jd_text, out.value, lookup, reply)]
    /\ UNCHANGED <<vectors, metadatas, lookup, diskVectors, diskMeta>>

\* top_k: omitted as main.py does, or a small limit.
TopKInputs == {None, Some(0), Some(1)}

\* An evaluate call with any query vector and limit, made while the
\* generation service is unreachable (the feedback is the heuristic one).
Evaluate ==
    \E jd_text \in JdTexts, jd_vector \in QueryVectors, top_k \in TopKInputs :
        evaluate(jd_text, jd_vector, top_k, RequestRaises("ConnectionError"))

\* A screening run as main.py makes it: the job description is embedded, and
\* top_k is omitted.
Screen ==
    \E jd_text \in JdTexts, reply \in ServiceReplies :
        evaluate(jd_text, EmbedText(jd_text), None, reply)

\* A build_store call, of the runs with restarts, that returns.
BuildWarm == \E resumes \in WarmBatches : build_store(resumes, "ok")

\* A VectorStoreManager constructed on an empty directory.
Init ==
    /\ vectors = <<>>
    /\ metadatas = <<>>
    /\ lookup = EmptyDict
    /\ diskVectors = Absent
    /\ diskMeta = Absent
    /\ last = [op |-> "init", args |-> <<>>, raised |-> ""]

\* One process: builds that return, searches and lookups.
Next == BuildStore \/ Search \/ GetResume

Spec == Init /\ [][Next]_vars

\* One process: builds that return, and screening runs.
EvalNext == BuildStore \/ Evaluate

EvalSpec == Init /\ [][EvalNext]_vars

\* The scoring functions on their own: a job description, a resume text and a
\* retrieval distance are drawn, and the scores of evaluate's loop computed.
Distances == {Frac(n, DistanceSteps) : n \in 0..(2 * DistanceSteps)}

ScoreInit ==
    /\ vectors = <<>>
    /\ metadatas = <<>>
    /\ lookup = EmptyDict
    /\ diskVectors = Absent
    /\ diskMeta = Absent
    /\ \E jd_text \in ScoreTexts, resume_text \in ScoreTexts, distance \in Distances :
          last = [op |-> "inputs", args |-> <<jd_text, distance, resume_text>>, raised |-> ""]

Score ==
    /\ last.op = "inputs"
    /\ last' = [op |-> "score", args |-> last.args, raised |-> "",
                value |-> Scores(last.args[1], last.args[2], last.args[3])]
    /\ UNCHANGED <<vectors, metadatas, lookup, diskVectors, diskMeta>>

ScoreNext == Score

ScoreSpec == ScoreInit /\ [][ScoreNext]_vars

\* One process: builds that return, and searches for the stored rows.
SelfNext == BuildSelf \/ SearchStored

SelfSpec == Init /\ [][SelfNext]_vars

\* Screening across restarts: builds that return, restarts of the process,
\* and screening runs.
WarmNext == BuildWarm \/ Restart \/ Screen

WarmSpec == Init /\ [][WarmNext]_vars

\* The store's life: builds that return or raise, and restarts of the process.
LifeNext == BuildStoreOrFail \/ Restart

LifeSpec == Init /\ [][LifeNext]_vars

\* The ranking scenario: a job description asking for python and four years,
\* a resume with python and five years, a resume with java and "1 year".
ScenarioJd == "python, 4 years"
ScenarioA == [text |-> "python, 5 years",
              metadata |-> [candidate_name |-> "Resume A", file_name |-> "a.pdf"]]
ScenarioB == [text |-> "java, 1 year",
              metadata |-> [candidate_name |-> "Resume B", file_name |-> "b.pdf"]]

ScenarioBatches == {<<ScenarioA, ScenarioB>>, <<ScenarioB, ScenarioA>>}

\* What the search returns for a store built from the batch when its rows lie
\* at the given distances: the rows' metadata by ascending distance, rows at
\* the same distance in either order.
ScenarioHits(batch, distances) ==
    {[i \in 1..Len(order) |-> <<Built(batch).metadatas[order[i]], distances[order[i]]>>] :
        order \in argsort(distances)}

\* The ranking on its own: the scenario's store is built in either input
\* order, each resume is given a retrieval distance, and evaluate's loop and
\* sort are applied to the hits.
RankInit ==
    /\ vectors = <<>>
    /\ metadatas = <<>>
    /\ lookup = EmptyDict
    /\ diskVectors = Absent
    /\ diskMeta = Absent
    /\ \E batch \in ScenarioBatches, distances \in [1..2 -> Distances] :
          \E search_results \in ScenarioHits(batch, distances), reply \in ServiceReplies :
              last = [op |-> "hits", raised |-> "",
                      args |-> <<ScenarioJd, search_results, Built(batch).lookup, reply>>]

Rank ==
    /\ last.op = "hits"
    /\ last' = [op |-> "rank", args |-> last.args, raised |-> "",
                value |-> Ranked(last.args[1], last.args[2], last.args[3], last.args[4])]
    /\ UNCHANGED <<vectors, metadatas, lookup, diskVectors, diskMeta>>

RankNext == Rank

RankSpec == RankInit /\ [][RankNext]_vars

\* What the generation service can give to the POST of _call_ollama: no
\* connection, no answer in time, an error status, a body that is not JSON, a
\* JSON value of another shape than an object or a list of objects, fields
\* that are no text, no field at all, and well-formed answers.
GenerationReplies ==
    {RequestRaises("ConnectionError"),
     RequestRaises("Timeout"),
     Response(500, JDict(<<<<"error", JStr("model failed")>>>>)),
     Response(404, NotJson),
     Response(200, NotJson),
     Response(200, JNull),
     Response(200, JInt(7)),
     Response(200, JStr(ExampleAnswer)),
     Response(200, JList(<<JStr("Strengths: x")>>)),
     Response(200, JList(<<>>)),
     Response(200, JList(<<JDict(<<<<"response", JInt(5)>>>>)>>)),
     Response(200, JList(<<JDict(<<<<"response", JStr("Strengths: Good")>>>>),
                           JDict(<<<<"done", JBool(TRUE)>>>>),
                           JDict(<<<<"text", JStr(" coder\nReasoning: fit")>>>>)>>)),
     Response(200, JDict(<<<<"response", JStr(ExampleAnswer)>>, <<"done", JBool(TRUE)>>>>)),
     Response(201, JDict(<<<<"response", JStr("Reasoning: fine")>>>>)),
     Response(200, JDict(<<<<"response", JStr("")>>, <<"text", JStr("Weaknesses: none")>>>>)),
     Response(200, JDict(<<<<"output", JStr("no headers here")>>>>)),
     Response(200, JDict(<<<<"response", JList(<<JStr("Strengths: x")>>)>>>>)),
     Response(200, JDict(<<<<"response", JInt(5)>>>>)),
     Response(200, JDict(<<<<"error", JStr("no reason")>>>>)),
     Response(200, JDict(<<>>))}

\* Resume texts with no sentence, one, two, and more than three.
AnalysisTexts ==
    {"", " \n ", "One sentence without end", "a.  b.", "Python dev.\n5 years.",
     "First. Second! Third? Fourth."}

\* analyze_candidate on its own: a resume text and the service's reply are
\* drawn, and the feedback computed.
AnalyzeInit ==
    /\ vectors = <<>>
    /\ metadatas = <<>>
    /\ lookup = EmptyDict
    /\ diskVectors = Absent
    /\ diskMeta = Absent
    /\ \E resume_text \in AnalysisTexts, reply \in GenerationReplies :
          last = [op |-> "request", raised |-> "",
                  args |-> <<"Candidate", ScenarioJd, resume_text, reply>>]

Analyze ==
    /\ last.op = "request"
    /\ LET out == analyze_candidate(last.args[1], last.args[2], last.args[3], last.args[4])
       IN  last' = [op |-> "analyze_candidate", args |-> last.args, raised |-> out.raised,
                    value |-> IF out.raised = "" THEN out.value ELSE <<>>]
    /\ UNCHANGED <<vectors, metadatas, lookup, diskVectors, diskMeta>>

AnalyzeNext == Analyze

AnalyzeSpec == AnalyzeInit /\ [][AnalyzeNext]_vars

\* The pieces the answers given to the parser are made of: the three lines of
\* the example, a header with two colons, a header with none that names two
\* sections, a header with nothing after its colon, a blank line, and two
\* lines of text parted by "\r\n".
LineChoices ==
    {"Strengths: Good coder", "Weaknesses: slow", "Reasoning: solid fit",
     "key strengths: a: b ", "No weakness and no reason", "REASON:", " ",
     "more: here\r\n and more"}

\* The answers: up to MaxLines pieces, one per line.
Contents == {Join("\n", pieces) : pieces \in SeqsUpTo(LineChoices, MaxLines)}

\* _parse_llm_response on its own: an answer is drawn and parsed.
ParseInit ==
    /\ vectors = <<>>
    /\ metadatas = <<>>
    /\ lookup = EmptyDict
    /\ diskVectors = Absent
    /\ diskMeta = Absent
    /\ \E content \in Contents : last = [op |-> "content", args |-> content, raised |-> ""]

Parse ==
    /\ last.op = "content"
    /\ last' = [op |-> "_parse_llm_response", args |-> last.args, raised |-> "",
                value |-> _parse_llm_response(last.args)]
    /\ UNCHANGED <<vectors, metadatas, lookup, diskVectors, diskMeta>>

ParseNext == Parse

ParseSpec == ParseInit /\ [][ParseNext]_vars

\* The generation client's health probe, called again and again against
\* servers of every kind.
HealthNext == HealthCheck

HealthSpec == Init /\ [][HealthNext]_vars

\* The characters of the texts given to clean_text: a letter, a full stop
\* and three kinds of whitespace.
CleanAlphabet == {"a", ".", " ", "\t", "\n"}

CleanTexts == {Text(cs) : cs \in SeqsUpTo(CleanAlphabet, MaxChars)}

\* clean_text on its own: a text is drawn, and clean_text is applied to it and
\* then to its own results.
CleanInit ==
    /\ vectors = <<>>
    /\ metadatas = <<>>
    /\ lookup = EmptyDict
    /\ diskVectors = Absent
    /\ diskMeta = Absent
    /\ \E text \in CleanTexts : last = [op |-> "text", text |-> text, value |-> text, raised |-> ""]

Clean ==
    /\ last' = [op |-> "clean_text", text |-> last.text, args |-> last.value, raised |-> "",
                value |-> clean_text(last.value)]
    /\ UNCHANGED <<vectors, metadatas, lookup, diskVectors, diskMeta>>

CleanNext == Clean

CleanSpec == CleanInit /\ [][CleanNext]_vars

(***************************************************************************)
(* Properties of the vector store.                                         *)
(***************************************************************************)
SearchReturned == last.op = "search" /\ last.raised = ""

\* The results are rows of the store taken in an index order that a stable
\* sort by ascending distance gives: distances never decrease, and of two rows
\* at the same distance the one inserted first comes first.
StableRanking(q, results) ==
    \E order \in [1..Len(results) -> 1..Len(vectors)] :
        /\ \A i, j \in 1..Len(results) : order[i] = order[j] => i = j
        /\ results = SearchResults(q, order, vectors, metadatas)
        /\ \A i, j \in 1..Len(results) :
              i < j => \/ FLess(results[i][2], results[j][2])
                       \/ results[i][2] = results[j][2] /\ order[i] < order[j]

\* C1: every search that returns lists its (metadata, distance) pairs by
\* ascending distance, rows at equal distance in their insertion order.
C1_AscendingStable == SearchReturned => StableRanking(last.args[1], last.value)

\* C2: with an integer k >= 0 the result is the first min(k, N) entries of a
\* ranking the same search returns with k omitted; k = 0 gives the empty list.
C2_FirstK ==
    (SearchReturned /\ last.args[2] # None) =>
        \E full \in SearchOutcomes(last.args[1], None, vectors, metadatas) :
            last.value = Take(full.value, last.args[2][1])

StoreUnchanged == UNCHANGED <<vectors, metadatas, lookup, diskVectors, diskMeta>>

\* C3: a search on a store that holds no vectors raises the "not initialized"
\* error, returns nothing and leaves the store as it was; build_store with an
\* empty input does not raise.
C3_EmptyStoreRaises ==
    [][/\ (last'.op = "search" /\ Len(vectors) = 0) =>
            /\ last'.raised = "Vector store is not initialized."
            /\ last'.value = <<>>
            /\ StoreUnchanged
       /\ (last'.op = "build_store" /\ last'.args = <<>>) => last'.raised = ""]_vars

\* A search raised on a store emptied by build_store([]) after an earlier build
\* had persisted an artifact.
C3_Witness ==
    /\ last.op = "search"
    /\ last.raised = "Vector store is not initialized."
    /\ Len(vectors) = 0
    /\ diskVectors.state = "ok"

\* C4: a build_store call, returning or raising, leaves either all three
\* structures describing the new batch or all three as they were.
C4_AtomicReplace ==
    [][last'.op = "build_store" =>
          \/ /\ vectors' = embed_documents(Built(last'.args).texts)
             /\ metadatas' = Built(last'.args).metadatas
             /\ lookup' = Built(last'.args).lookup
          \/ /\ vectors' = vectors
             /\ metadatas' = metadatas
             /\ lookup' = lookup]_vars

\* C5: in every state the store holds as many vectors as metadata entries.
C5_LengthsAgree == Len(vectors) = Len(metadatas)

\* C6: a manager constructed right after a build_store call that returned
\* loads the vectors and metadata that call stored.
C6_LoadsLastBuild ==
    [][(last.op = "build_store" /\ last.raised = "" /\ last'.op = "init") =>
          /\ vectors' = vectors
          /\ metadatas' = metadatas]_vars

\* C7: after build_store of N >= 1 resumes returns, the metadata at position i
\* has candidate_id str(i), get_resume_by_id(str(i)) is the i-th input, and
\* every other id resolves to none.
C7_SequentialIds ==
    (last.op = "build_store" /\ last.raised = "" /\ Len(last.args) >= 1) =>
        /\ Len(metadatas) = Len(last.args)
        /\ \A i \in 1..Len(last.args) :
              /\ metadatas[i]["candidate_id"] = Str(i)
              /\ DictGet(lookup, Str(i)) = Some(last.args[i])
        /\ \A id \in IdInputs :
              (\A i \in 1..Len(last.args) : id # Str(i)) => DictGet(lookup, id) = None

\* C15: a search whose query equals a stored vector returns first the
\* metadata of a row holding that very vector, at distance 0, and no result
\* at a smaller distance.
C15_StoredVectorFirst ==
    (SearchReturned /\ \E i \in 1..Len(vectors) : vectors[i] = last.args[1]) =>
        /\ Len(last.value) >= 1
        /\ \E i \in 1..Len(vectors) :
              /\ vectors[i] = last.args[1]
              /\ metadatas[i] = last.value[1][1]
        /\ last.value[1][2] = Zero
        /\ \A n \in 1..Len(last.value) : FLeq(last.value[1][2], last.value[n][2])

(***************************************************************************)
(* Properties of the candidate scorer.                                     *)
(***************************************************************************)
\* C8: the list evaluate returns is its scored hits in descending order of
\* match_score, candidates of equal match_score in the order in which the
\* retrieval step returned them.
C8_SortedStable ==
    (last.op = "evaluate" /\ last.raised = "") =>
        LET evaluations == ScoreHits(last.args[1], last.search_results, lookup, last.args[4], 1)
        IN  /\ Len(last.value) = Len(evaluations)
            /\ \E p \in IndexOrders(Len(evaluations)) :
                  /\ \A i \in 1..Len(evaluations) : last.value[i] = evaluations[p[i]]
                  /\ \A i, j \in 1..Len(evaluations) :
                        i < j =>
                           \/ FLess(last.value[j].match_score, last.value[i].match_score)
                           \/ /\ last.value[i].match_score = last.value[j].match_score
                              /\ p[i] < p[j]

\* An evaluation that returned two different candidates of equal match_score.
C8_Witness ==
    /\ last.op = "evaluate"
    /\ last.raised = ""
    /\ \E i, j \in 1..Len(last.value) :
          /\ i < j
          /\ last.value[i].match_score = last.value[j].match_score
          /\ last.value[i] # last.value[j]

\* C17: whenever evaluate's search returns, the candidate_id of every hit
\* resolves to a resume record, and evaluate returns one CandidateScore and
\* makes one analyze_candidate call for every hit.
C17_EveryHitScored ==
    (last.op = "evaluate" /\ last.raised = "") =>
        /\ \A i \in 1..Len(last.search_results) :
              /\ "candidate_id" \in DOMAIN last.search_results[i][1]
              /\ DictGet(lookup, last.search_results[i][1]["candidate_id"]) # None
        /\ Len(last.value) = Len(last.search_results)
        /\ Len(last.calls) = Len(last.search_results)

Scored == last.op = "score"

\* min(ratio, 1.2) / 1.2 without dividing: 1 once resume >= 1.2 * jd.
CappedRatio(resume, jd) ==
    IF FLeq(FMul(Frac(12, 10), jd), resume) THEN One
    ELSE FDiv(FDiv(resume, jd), Frac(12, 10))

\* C9: with "present" meaning that the estimator returned a number, 0
\* included: min(resume/jd, 1.2)/1.2 when both estimates are present,
\* min(resume/10, 1.0) when only the resume's is, 0.4 otherwise.  (The claim's
\* resume/jd has no value for a job estimate of 0: those cases are left out.)
C9_ExperiencePresent ==
    Scored =>
        LET jd == YearsOf[last.args[1]]
            resume == YearsOf[last.args[3]]
            experience == last.value.raw.experience_score
        IN  (jd = None \/ jd[1] # Zero) =>
                experience =
                    IF jd # None /\ resume # None THEN CappedRatio(resume[1], jd[1])
                    ELSE IF resume # None THEN FMin(FDiv(resume[1], Frac(10, 1)), One)
                    ELSE Frac(4, 10)

InUnit(x) == FLeq(Zero, x) /\ FLeq(x, One)

\* C10: for a distance in [0, 2] the similarity, skill alignment and
\* experience score each lie in [0, 1], the match score is their blend with
\* weights 0.55, 0.25 and 0.20, and as a percentage it lies in [0, 100].
C10_ScoresInRange ==
    Scored =>
        LET raw == last.value.raw
        IN  /\ InUnit(raw.similarity)
            /\ InUnit(raw.skill_alignment)
            /\ InUnit(raw.experience_score)
            /\ raw.match_score =
                  FAdd(FAdd(FMul(Frac(55, 100), raw.similarity),
                            FMul(Frac(25, 100), raw.skill_alignment)),
                       FMul(Frac(20, 100), raw.experience_score))
            /\ FLeq(Zero, last.value.match_score)
            /\ FLeq(last.value.match_score, Frac(100, 1))

\* A resume five times over the required years at distance 0 with every
\* skill: the experience score is capped at 1 and the match is 100.
C10_Witness ==
    /\ Scored
    /\ last.args[2] = Zero
    /\ FLess(FMul(Frac(12, 10), YearsOf[last.args[1]][1]), YearsOf[last.args[3]][1])
    /\ last.value.raw.experience_score = One
    /\ last.value.match_score = Frac(100, 1)

Ranking == last.op = "rank"

\* The distance the hits give to the named candidate.
DistanceOf(search_results, name) ==
    (CHOOSE hit \in {search_results[i] : i \in 1..Len(search_results)} :
        hit[1]["candidate_name"] = name)[2]

\* C11: for the scenario's store and job description, whatever distances in
\* [0, 2] the two resumes are retrieved at, evaluate returns both, Resume A
\* first, with a match_score strictly above Resume B's.
C11_ScenarioRanksA ==
    Ranking =>
        /\ Len(last.value) = 2
        /\ last.value[1].candidate_name = "Resume A"
        /\ last.value[2].candidate_name = "Resume B"
        /\ FLess(last.value[2].match_score, last.value[1].match_score)

\* Resume A retrieved at the largest distance and Resume B at the smallest:
\* Resume A is still first, 63.33 against 63.
C11_Witness ==
    /\ Ranking
    /\ DistanceOf(last.args[2], "Resume A") = Frac(2, 1)
    /\ DistanceOf(last.args[2], "Resume B") = Zero
    /\ last.value[1].candidate_name = "Resume A"
    /\ last.value[1].match_score = Frac(6333, 100)
    /\ last.value[2].match_score = Frac(63, 1)

(***************************************************************************)
(* Properties of the generation client.                                    *)
(***************************************************************************)
Analyzed == last.op = "analyze_candidate"

\* The body carries an answer: it is an object or a list of objects, and no
\* field an answer is taken from holds anything but text.  (An object with
\* none of the fields set still carries one: the code takes str(data).)
CarriesAnswer(body) ==
    \/ /\ body.type = "dict"
       /\ FirstField(body.pairs).type \in {"str", "NoneType"}
    \/ /\ body.type = "list"
       /\ \A i \in 1..Len(body.items) :
             /\ body.items[i].type = "dict"
             /\ FirstField(body.items[i].pairs).type \in {"str", "NoneType"}

\* The generation request failed: a network error or timeout, a status that
\* is not a success, a body that is not JSON or carries no answer.
RequestFailed(reply) ==
    \/ reply.kind = "raises"
    \/ /\ reply.kind = "response"
       /\ \/ reply.status_code \notin 200..299
          \/ reply.body = NotJson
          \/ ~CarriesAnswer(reply.body)

\* C12: whatever the generation request gives, analyze_candidate raises
\* nothing and returns exactly the keys strengths, weaknesses and reasoning,
\* each a non-empty string; when the request failed, strengths and weaknesses
\* are the two canned sentences and reasoning is the first three sentences of
\* the resume text joined by spaces, or the placeholder when it has none.
C12_FeedbackAlways ==
    Analyzed =>
        /\ last.raised = ""
        /\ DOMAIN last.value = {"strengths", "weaknesses", "reasoning"}
        /\ \A key \in DOMAIN last.value : last.value[key] # ""
        /\ RequestFailed(last.args[4]) =>
              LET sentences == split_sentences(last.args[3])
              IN  /\ last.value["strengths"] =
                         "Solid baseline profile with relevant experience."
                  /\ last.value["weaknesses"] =
                         "Needs deeper alignment verification via interview."
                  /\ last.value["reasoning"] =
                         IF Len(sentences) = 0 THEN "Summary unavailable."
                         ELSE Join(" ", SubSeq(sentences, 1, Min(3, Len(sentences))))

\* The connection failed for a resume of four sentences: the reasoning is the
\* first three.
C12_Witness ==
    /\ Analyzed
    /\ last.args[4] = RequestRaises("ConnectionError")
    /\ Len(split_sentences(last.args[3])) = 4
    /\ last.value["reasoning"] = "First. Second! Third?"

Parsed == last.op = "_parse_llm_response"

\* The text of a section read off the lines: the header line of the section
\* is the last line that starts it (a line naming several sections starts the
\* first of strengths, weaknesses, reasoning that it names); its text after
\* the first colon (the whole line when it has no colon) and the lines that
\* follow, up to the next line that starts any section, are trimmed and joined
\* by spaces.
SectionText(lines, section) ==
    LET headers == {i \in 1..Len(lines) : SectionOf(lines[i]) # None}
        own == {i \in headers : SectionOf(lines[i]) = Some(section)}
    IN  IF own = {} THEN ""
        ELSE LET header == CHOOSE i \in own : \A j \in own : j <= i
                 following == {j \in headers : j > header}
                 next == IF following = {} THEN Len(lines) + 1
                         ELSE CHOOSE j \in following : \A l \in following : j <= l
                 colons == {i \in 1..Len(lines[header]) : lines[header][i] = ":"}
                 first == IF colons = {} THEN 0
                          ELSE CHOOSE i \in colons : \A j \in colons : i <= j
                 parts == <<Text(Strip(SubSeq(lines[header], first + 1, Len(lines[header]))))>>
                          \o [j \in 1..(next - header - 1) |-> Text(Strip(lines[header + j]))]
             IN  Text(Strip(Chars(Join(" ", parts))))

\* C13: each of the three sections of the parser's result is the text after
\* the first colon of the section's header line followed by the lines up to
\* the next header line, joined by spaces; a section with no header line or
\* no text is "Not provided."; the example answer yields "Good coder", "slow"
\* and "solid fit".
C13_ParsedSections ==
    Parsed =>
        LET lines == SplitLines(Chars(last.args), 1)
        IN  /\ DOMAIN last.value = {"strengths", "weaknesses", "reasoning"}
            /\ \A section \in DOMAIN last.value :
                  last.value[section] =
                      IF SectionText(lines, section) = "" THEN "Not provided."
                      ELSE SectionText(lines, section)
            /\ last.args = ExampleAnswer =>
                  last.value = [strengths |-> "Good coder", weaknesses |-> "slow",
                                reasoning |-> "solid fit"]

\* The example answer parsed.
C13_Witness ==
    /\ Parsed
    /\ last.args = ExampleAnswer
    /\ last.value = [strengths |-> "Good coder", weaknesses |-> "slow",
                     reasoning |-> "solid fit"]

HealthChecked == last.op = "health_check"

\* The endpoint answers 200 with a body that parses.
Lists(reply) == reply.kind = "response" /\ reply.status_code = 200 /\ reply.body # NotJson

NotFound(reply) == reply.kind = "response" /\ reply.status_code = 404

\* C14: health_check requests /api/models, /api/tags, /api/status in that
\* order, each at most once, and never raises; when some endpoint answers 200
\* with a body that parses, the result is ok with the model names of the first
\* such endpoint; when none does and one answers 404, it is ok with an empty
\* list; when no endpoint responds, it is not ok and models is None.
C14_FirstListingWins ==
    HealthChecked =>
        LET replies == last.args
            listing == {i \in 1..Len(Endpoints) : Lists(replies[i])}
        IN  /\ last.raised = ""
            /\ last.requests = SubSeq(Endpoints, 1, Len(last.requests))
            /\ listing # {} =>
                  /\ last.value.ok
                  /\ last.value.models =
                        Some(_parse_model_list(
                                 replies[CHOOSE i \in listing : \A j \in listing : i <= j].body))
            /\ (listing = {} /\ \E i \in 1..Len(Endpoints) : NotFound(replies[i])) =>
                  /\ last.value.ok
                  /\ last.value.models = Some(<<>>)
            /\ (\A i \in 1..Len(Endpoints) : replies[i].kind = "raises") =>
                  /\ ~last.value.ok
                  /\ last.value.models = None

(***************************************************************************)
(* Properties of the text utilities.                                       *)
(***************************************************************************)
Cleaned == last.op = "clean_text"

\* The call was given a result of clean_text.
CleanedAgain == Cleaned /\ last.args = clean_text(last.text)

\* C16: clean_text applied to a result of clean_text returns it unchanged,
\* and a result of clean_text has no two whitespace characters in a row and
\* no whitespace at either end.
C16_CleanIdempotent ==
    /\ CleanedAgain => last.value = last.args
    /\ Cleaned =>
          LET cs == Chars(last.value)
          IN  /\ \A i \in 1..(Len(cs) - 1) : ~(IsSpace(cs[i]) /\ IsSpace(cs[i + 1]))
              /\ Len(cs) > 0 => ~IsSpace(cs[1]) /\ ~IsSpace(cs[Len(cs)])

\* clean_text applied a second time, to the result "a a" of a text with a
\* run of mixed whitespace.
C16_Witness ==
    /\ CleanedAgain
    /\ last.text = "a \ta"
    /\ last.args = "a a"
    /\ last.value = "a a"

====
